---- MODULE Spec2Model ----
(***************************************************************************)
(* The Pub/Sub tools of google.adk.tools.pubsub: the client factory        *)
(* (client.py), the message tools (message_tool.py) and the metadata tools *)
(* (metadata_tool.py).  One tool invocation is a short run of steps: the   *)
(* call, the client factory call, the request handed to the service, the   *)
(* optional auto-acknowledge request, and the return.  The service and the *)
(* client library are the environment: they answer or raise.               *)
(*                                                                         *)
(* Python values:  str with structure that matters (exception texts,       *)
(* error_details, paths) is a sequence of tokens; bytes is a sequence of   *)
(* integers 0..255; an Optional value is <<>> (None) or <<v>>; a dict is a *)
(* function (record) from keys to values.                                  *)
(***************************************************************************)
EXTENDS Integers, Sequences, FiniteSets, TLC

VARIABLES
  settings,   \* the PubSubToolConfig handed to every call
  creds,      \* the Credentials handed to every call
  pc,         \* position of the running invocation
  call,       \* the tool called and its arguments
  handle,     \* Optional client handle the invocation got from the factory
  log,        \* what the invocation did to the outside, in order
  pulled,     \* pull_messages: the `messages` list built by the loop
  ret,        \* the value the tool returned
  caught,     \* Optional exception that reached the tool's except clause
  nCalls,     \* invocations started so far
  me,         \* which invocation is running: its number, 0 when none is
  waiting     \* the invocations that are suspended, each with its locals

vars ==
  <<settings, creds, pc, call, handle, log, pulled, ret, caught, nCalls, me,
    waiting>>

----------------------------------------------------------------------------
(* Bounds of the model.                                                    *)

MaxCalls == 2      \* invocations in one behaviour
MaxErrLen == 1     \* characters in the text of an exception the environment raises
MaxPayload == 2    \* bytes in a delivered message's payload
MaxMsgs == 2       \* messages in one pull response
MaxList == 2       \* resources in one list response
MaxText == 1       \* code points in the message text given to publish_message
MaxTokens == 2     \* ack tokens given to acknowledge_messages
MaxFragments == 3  \* entries in a user_agent list handed to the factory

----------------------------------------------------------------------------
(* Generic helpers.                                                        *)

RECURSIVE Concat(_)
Concat(ss) == IF ss = <<>> THEN <<>> ELSE Head(ss) \o Concat(Tail(ss))

SeqsUpTo(S, n) == UNION {[1..k -> S] : k \in 0..n}

Range(s) == {s[i] : i \in DOMAIN s}

\* t occurs in s as a contiguous run (Python: t in s)
Contains(s, t) ==
  \E i \in 0..(Len(s) - Len(t)) : \A j \in 1..Len(t) : s[i + j] = t[j]

None == <<>>
Some(v) == <<v>>

----------------------------------------------------------------------------
(* Python text and exceptions.                                             *)

SQ == "'"
DQ == "\""
BS == "\\"
NL == "\n"

\* An exception object: its class name and its args tuple (no argument, or
\* one str argument given as a sequence of tokens).
Exc(type, text) == [type |-> type, args |-> <<text>>]
ExcNoArgs(type) == [type |-> type, args |-> <<>>]

\* str(ex): the empty string without arguments, str(arg) with one.
Str(ex) == IF ex.args = <<>> THEN <<>> ELSE ex.args[1]

\* repr of a str: quoted with ' unless it holds a ' and no ", backslash,
\* newline and the chosen quote escaped.
ReprQuote(s) == IF SQ \in Range(s) /\ DQ \notin Range(s) THEN DQ ELSE SQ

ReprChar(c, q) ==
  IF c = BS THEN <<BS, BS>>
  ELSE IF c = NL THEN <<BS, "n">>
  ELSE IF c = q THEN <<BS, c>>
  ELSE <<c>>

ReprStr(s) ==
  LET q == ReprQuote(s)
  IN <<q>> \o Concat([i \in DOMAIN s |-> ReprChar(s[i], q)]) \o <<q>>

\* repr(ex): ClassName(<repr of the args>)
Repr(ex) ==
  <<ex.type, "(">> \o (IF ex.args = <<>> THEN <<>> ELSE ReprStr(ex.args[1])) \o <<")">>

\* What the client library and the service may raise (subclasses of
\* Exception with any text, the empty text included).
ErrChars == {"e", SQ, DQ, NL}
ErrTexts == SeqsUpTo(ErrChars, MaxErrLen)
ServiceErrors ==
  {ExcNoArgs("Exception")} \cup {Exc("Exception", t) : t \in ErrTexts}

\* What a step of a tool comes to: a value, or a raised exception.
Ok(v) == [raised |-> FALSE, val |-> v]
Raise(ex) == [raised |-> TRUE, exc |-> ex]

----------------------------------------------------------------------------
(* client.py                                                               *)

USER_AGENT == "adk-pubsub-tool google-adk/<version>"

\* The functions the client module defines, each with the keyword
\* parameters its signature takes and the kind of client it builds.
ClientModule ==
  [get_publisher_client |->
     [params |-> {"credentials", "user_agent"}, builds |-> "PublisherClient"],
   get_subscriber_client |->
     [params |-> {"credentials", "user_agent"}, builds |-> "SubscriberClient"]]

\* [ua for ua in user_agent]
KeepAll(l) == l

\* [ua for ua in user_agent if ua]
RECURSIVE NonEmpty(_)
NonEmpty(l) ==
  IF l = <<>> THEN <<>>
  ELSE (IF Head(l) = "" THEN <<>> ELSE <<Head(l)>>) \o NonEmpty(Tail(l))

\* user_agents, from a user_agent argument that is absent
\* ([kind |-> "none"]), a str ([kind |-> "str", s |-> ..]) or a list
\* ([kind |-> "list", l |-> ..]).
UserAgents(user_agent) ==
  <<USER_AGENT>> \o
    (IF user_agent.kind = "none" THEN <<>>
     ELSE IF user_agent.kind = "str"
       THEN (IF user_agent.s = "" THEN <<>> ELSE <<user_agent.s>>)
     ELSE NonEmpty(user_agent.l))

\* " ".join(l), as the sequence of its pieces
RECURSIVE Join(_)
Join(l) ==
  IF l = <<>> THEN <<>>
  ELSE IF Len(l) = 1 THEN <<l[1]>>
  ELSE <<l[1], " ">> \o Join(Tail(l))

\* get_publisher_client / get_subscriber_client: the handle built from the
\* keyword arguments; `id` tells one constructed handle from another.
get_client(fn, credentials, user_agent, id) ==
  [class |-> ClientModule[fn].builds,
   credentials |-> credentials,
   client_info |-> Join(UserAgents(user_agent)),
   id |-> id]

\* The call client.<fn>(**kwargs) as Python binds it, before the body of
\* the function runs: AttributeError when the module has no such function,
\* TypeError when a keyword is none of the function's parameters.
FactoryBind(fn, kwargs) ==
  IF fn \notin DOMAIN ClientModule
    THEN Raise(Exc("AttributeError",
           <<"module ", SQ, "google.adk.tools.pubsub.client", SQ,
             " has no attribute ", SQ, fn, SQ>>))
  ELSE IF \E k \in DOMAIN kwargs : k \notin ClientModule[fn].params
    THEN Raise(Exc("TypeError",
           <<fn, "() got an unexpected keyword argument ", SQ,
             CHOOSE k \in DOMAIN kwargs : k \notin ClientModule[fn].params, SQ>>))
  ELSE Ok(fn)

\* The body of the function: `built` is what the constructor of the client
\* class came to, Ok(id) or Raise(ex).
FactoryCall(fn, kwargs, built) ==
  IF built.raised THEN built
  ELSE Ok(get_client(fn, kwargs.credentials, kwargs.user_agent, built.val))

----------------------------------------------------------------------------
(* bytes and str: UTF-8 and base64.                                        *)

IsCont(b) == 128 <= b /\ b <= 191

\* bytes.decode("utf-8"), strict: Ok(code points) or UnicodeDecodeError.
UnicodeDecodeError ==
  Exc("UnicodeDecodeError", <<"utf-8 codec can", SQ, "t decode bytes">>)

RECURSIVE Utf8Decode(_)
Utf8Decode(bs) ==
  IF bs = <<>> THEN Ok(<<>>)
  ELSE
    LET b == bs[1]
        n == IF b < 128 THEN 1
             ELSE IF 194 <= b /\ b <= 223 THEN 2
             ELSE IF 224 <= b /\ b <= 239 THEN 3
             ELSE IF 240 <= b /\ b <= 244 THEN 4
             ELSE 0
    IN IF n = 0 \/ Len(bs) < n \/ \E i \in 2..n : ~IsCont(bs[i])
         THEN Raise(UnicodeDecodeError)
       ELSE
         LET cp == IF n = 1 THEN b
                   ELSE IF n = 2 THEN (b - 192) * 64 + (bs[2] - 128)
                   ELSE IF n = 3
                     THEN (b - 224) * 4096 + (bs[2] - 128) * 64 + (bs[3] - 128)
                   ELSE (b - 240) * 262144 + (bs[2] - 128) * 4096
                        + (bs[3] - 128) * 64 + (bs[4] - 128)
             bad == \/ n = 3 /\ (cp < 2048 \/ (55296 <= cp /\ cp <= 57343))
                    \/ n = 4 /\ (cp < 65536 \/ cp > 1114111)
             rest == Utf8Decode(SubSeq(bs, n + 1, Len(bs)))
         IN IF bad THEN Raise(UnicodeDecodeError)
            ELSE IF rest.raised THEN rest
            ELSE Ok(<<cp>> \o rest.val)

\* str.encode("utf-8"): Ok(bytes) or UnicodeEncodeError (lone surrogates).
UnicodeEncodeError ==
  Exc("UnicodeEncodeError", <<"utf-8 codec can", SQ, "t encode character">>)

RECURSIVE Utf8Encode(_)
Utf8Encode(cps) ==
  IF cps = <<>> THEN Ok(<<>>)
  ELSE
    LET cp == cps[1]
        rest == Utf8Encode(Tail(cps))
        enc == IF cp < 128 THEN <<cp>>
               ELSE IF cp < 2048 THEN <<192 + (cp \div 64), 128 + (cp % 64)>>
               ELSE IF cp < 65536
                 THEN <<224 + (cp \div 4096), 128 + ((cp \div 64) % 64), 128 + (cp % 64)>>
               ELSE <<240 + (cp \div 262144), 128 + ((cp \div 4096) % 64),
                      128 + ((cp \div 64) % 64), 128 + (cp % 64)>>
    IN IF 55296 <= cp /\ cp <= 57343 THEN Raise(UnicodeEncodeError)
       ELSE IF rest.raised THEN rest
       ELSE Ok(enc \o rest.val)

\* The base64 alphabet, as ASCII code points, and '='.
B64Char(i) ==
  IF i < 26 THEN 65 + i
  ELSE IF i < 52 THEN 97 + (i - 26)
  ELSE IF i < 62 THEN 48 + (i - 52)
  ELSE IF i = 62 THEN 43
  ELSE 47

B64Pad == 61

\* base64.b64encode(bs).decode("ascii")
RECURSIVE B64Encode(_)
B64Encode(bs) ==
  IF bs = <<>> THEN <<>>
  ELSE IF Len(bs) = 1
    THEN <<B64Char(bs[1] \div 4), B64Char((bs[1] % 4) * 16), B64Pad, B64Pad>>
  ELSE IF Len(bs) = 2
    THEN <<B64Char(bs[1] \div 4),
           B64Char(((bs[1] % 4) * 16) + (bs[2] \div 16)),
           B64Char((bs[2] % 16) * 4), B64Pad>>
  ELSE <<B64Char(bs[1] \div 4),
         B64Char(((bs[1] % 4) * 16) + (bs[2] \div 16)),
         B64Char(((bs[2] % 16) * 4) + (bs[3] \div 64)),
         B64Char(bs[3] % 64)>> \o B64Encode(SubSeq(bs, 4, Len(bs)))

----------------------------------------------------------------------------
(* message_tool.py                                                         *)

\* The names bound in the module's namespace: its imports and its functions.
message_tool_globals ==
  {"annotations", "Credentials", "pubsub_v1", "client", "PubSubToolConfig",
   "publish_message", "pull_messages", "acknowledge_messages"}

NameError(name) == Exc("NameError", <<"name ", SQ, name, SQ, " is not defined">>)

\* A test for None only
NotNone(o) == o # None

\* Python truth of an Optional[str]: None and "" are false.
Truthy(o) == o # None /\ o[1] # ""

EmptyDict == [k \in {} |-> ""]

ListArg(l) == [kind |-> "list", l |-> l]

\* The values a tool returns.
Dict(d) == [kind |-> "dict", val |-> d]
List(l) == [kind |-> "list", val |-> l]
NoValue == [kind |-> "none"]

\* publish_message, lines 46-60: the keyword arguments of the factory call.
publish_message_client(c, cfg) ==
  [fn |-> "get_publisher_client",
   kwargs |->
     [credentials |-> c.credentials,
      user_agent |-> ListArg(<<cfg.project_id, "publish_message">>),
      publisher_options |->
        [enable_message_ordering |-> Truthy(c.ordering_key)]]]

\* A call of publish in which the attributes are merged over the keywords
publish_message_request_merged(c) ==
  LET attributes == IF c.attributes = None THEN EmptyDict ELSE c.attributes[1]
      message_bytes == Utf8Encode(c.message)
  IN IF message_bytes.raised THEN message_bytes
     ELSE Ok([method |-> "publish",
              topic |-> c.topic_name,
              data |-> IF "data" \in DOMAIN attributes
                         THEN attributes["data"] ELSE message_bytes.val,
              ordering_key |-> IF Truthy(c.ordering_key) THEN c.ordering_key[1] ELSE "",
              attrs |-> attributes])

\* publish_message, lines 62-68: the encoding and the call of publish, which
\* Python refuses when ** repeats a keyword given explicitly.
publish_message_request(c) ==
  LET attributes == IF c.attributes = None THEN EmptyDict ELSE c.attributes[1]
      message_bytes == Utf8Encode(c.message)
      dup == DOMAIN attributes \cap {"data", "ordering_key"}
  IN IF message_bytes.raised THEN message_bytes
     ELSE IF dup # {}
       THEN Raise(Exc("TypeError",
              <<"publish() got multiple values for keyword argument ", SQ,
                CHOOSE k \in dup : TRUE, SQ>>))
     ELSE Ok([method |-> "publish",
              topic |-> c.topic_name,
              data |-> message_bytes.val,
              ordering_key |-> IF Truthy(c.ordering_key) THEN c.ordering_key[1] ELSE "",
              attrs |-> attributes])

\* publish_message, line 70
publish_message_result(message_id) == Dict([message_id |-> message_id])

\* publish_message, lines 71-77
publish_message_error(c, ex) ==
  Dict([status |-> "ERROR",
        error_details |->
          <<"Failed to publish message to topic ", SQ, c.topic_name, SQ, ": ">>
            \o Repr(ex)])

\* pull_messages, lines 102-105
pull_messages_client(c, cfg) ==
  [fn |-> "get_subscriber_client",
   kwargs |->
     [credentials |-> c.credentials,
      user_agent |-> ListArg(<<cfg.project_id, "pull_messages">>)]]

\* pull_messages, lines 107-110
pull_messages_request(c) ==
  Ok([method |-> "pull",
      subscription |-> c.subscription_name,
      max_messages |-> c.max_messages])

\* DatetimeWithNanoseconds.rfc3339(): the timestamp as text
Rfc3339(t) == <<t, "Z">>

\* pull_messages, lines 116-122: the payload as text
message_data(data) ==
  LET text == Utf8Decode(data)
  IN IF ~text.raised THEN text
     ELSE IF "base64" \in message_tool_globals THEN Ok(B64Encode(data))
     ELSE Raise(NameError("base64"))

\* An entry whose ack_id is taken from the message id
message_entry_wrong_ack(received_message, data) ==
  [message_id |-> received_message.message.message_id,
   data |-> data,
   attributes |-> received_message.message.attributes,
   publish_time |-> Rfc3339(received_message.message.publish_time),
   ack_id |-> received_message.message.message_id]

\* pull_messages, lines 124-130: one entry of `messages`
message_entry(received_message, data) ==
  [message_id |-> received_message.message.message_id,
   data |-> data,
   attributes |-> received_message.message.attributes,
   publish_time |-> Rfc3339(received_message.message.publish_time),
   ack_id |-> received_message.ack_id]

\* A loop that stops at a payload it cannot turn into text and keeps what
\* it has
RECURSIVE pull_messages_loop_partial(_, _, _)
pull_messages_loop_partial(received, messages, ack_ids) ==
  IF received = <<>> THEN Ok([messages |-> messages, ack_ids |-> ack_ids])
  ELSE
    LET m == Head(received)
        d == message_data(m.message.data)
    IN IF d.raised THEN Ok([messages |-> messages, ack_ids |-> ack_ids])
       ELSE pull_messages_loop_partial(Tail(received),
                                       Append(messages, message_entry(m, d.val)),
                                       Append(ack_ids, m.ack_id))

\* pull_messages, lines 112-131: the loop over response.received_messages,
\* Ok([messages, ack_ids]) or the exception that left it.
RECURSIVE pull_messages_loop(_, _, _)
pull_messages_loop(received, messages, ack_ids) ==
  IF received = <<>> THEN Ok([messages |-> messages, ack_ids |-> ack_ids])
  ELSE
    LET m == Head(received)
        d == message_data(m.message.data)
    IN IF d.raised THEN d
       ELSE pull_messages_loop(Tail(received),
                               Append(messages, message_entry(m, d.val)),
                               Append(ack_ids, m.ack_id))

\* pull_messages, lines 133-137: the acknowledge request, when there is one
pull_messages_ack(c, ack_ids) ==
  IF c.auto_ack /\ ack_ids # <<>>
    THEN Some([method |-> "acknowledge",
               subscription |-> c.subscription_name,
               ack_ids |-> ack_ids])
  ELSE None

\* pull_messages, line 139
pull_messages_result(messages) == Dict([messages |-> messages])

\* pull_messages, lines 140-147
pull_messages_error(c, ex) ==
  Dict([status |-> "ERROR",
        error_details |->
          <<"Failed to pull messages from subscription ", SQ,
            c.subscription_name, SQ, ":", " ">> \o Repr(ex)])

\* acknowledge_messages, lines 169-172
acknowledge_messages_client(c, cfg) ==
  [fn |-> "get_subscriber_client",
   kwargs |->
     [credentials |-> c.credentials,
      user_agent |-> ListArg(<<cfg.project_id, "acknowledge_messages">>)]]

\* A request that sends the tokens in reverse
acknowledge_messages_request_reversed(c) ==
  Ok([method |-> "acknowledge",
      subscription |-> c.subscription_name,
      ack_ids |-> [i \in DOMAIN c.ack_ids |-> c.ack_ids[Len(c.ack_ids) + 1 - i]]])

\* acknowledge_messages, lines 174-177
acknowledge_messages_request(c) ==
  Ok([method |-> "acknowledge",
      subscription |-> c.subscription_name,
      ack_ids |-> c.ack_ids])

\* acknowledge_messages, line 179
acknowledge_messages_result == Dict([status |-> "SUCCESS"])

\* acknowledge_messages, lines 180-187
acknowledge_messages_error(c, ex) ==
  Dict([status |-> "ERROR",
        error_details |->
          <<"Failed to acknowledge messages on subscription", " ", SQ,
            c.subscription_name, SQ, ": ">> \o Repr(ex)])

----------------------------------------------------------------------------
(* metadata_tool.py                                                        *)

\* The user_agent every metadata tool hands to the factory
MetadataKwargs(c, cfg) ==
  [credentials |-> c.credentials,
   user_agent |-> ListArg(<<cfg.project_id, c.op>>)]

\* f"projects/{project_id}"
project_path(project_id) == <<"projects/", project_id>>

\* str() of a nested message (policy, settings, duration): a message is the
\* sequence of its set fields, <<name, value>> each, and is false when none
\* is set.
StrObj(o) == Concat([i \in DOMAIN o |-> <<o[i][1], ": ", o[i][2], NL>>])

\* str(x) whether x is set or not
StrAlways(o) == Some(StrObj(o))

\* str(x) if x else None
StrOrNone(o) == IF o # <<>> THEN Some(StrObj(o)) ELSE None

\* str() of an enum member and of a timestamp
StrEnum(e) == <<"Type.", e>>
StrTime(t) == <<t, "+00:00">>

\* The except handler of every metadata tool
metadata_error(ex) == Dict([status |-> "ERROR", error_details |-> Str(ex)])

RECURSIVE Names(_)
Names(rs) == IF rs = <<>> THEN <<>> ELSE <<Head(rs).name>> \o Names(Tail(rs))

RECURSIVE RevisionIds(_)
RevisionIds(rs) ==
  IF rs = <<>> THEN <<>> ELSE <<Head(rs).revision_id>> \o RevisionIds(Tail(rs))

list_topics_client(c, cfg) ==
  [fn |-> "get_publisher_client", kwargs |-> MetadataKwargs(c, cfg)]

list_topics_request(c) ==
  Ok([method |-> "list_topics", request |-> [project |-> project_path(c.project_id)]])

list_topics_result(topics) == List(Names(topics))

get_topic_client(c, cfg) ==
  [fn |-> "get_publisher_client", kwargs |-> MetadataKwargs(c, cfg)]

get_topic_request(c) ==
  Ok([method |-> "get_topic", request |-> [topic |-> c.topic_name]])

get_topic_result(topic) ==
  Dict([name |-> topic.name,
        labels |-> topic.labels,
        kms_key_name |-> topic.kms_key_name,
        schema_settings |-> StrOrNone(topic.schema_settings),
        message_storage_policy |-> StrOrNone(topic.message_storage_policy)])

list_subscriptions_client(c, cfg) ==
  [fn |-> "get_subscriber_client", kwargs |-> MetadataKwargs(c, cfg)]

list_subscriptions_request(c) ==
  Ok([method |-> "list_subscriptions",
      request |-> [project |-> project_path(c.project_id)]])

list_subscriptions_result(subscriptions) == List(Names(subscriptions))

get_subscription_client(c, cfg) ==
  [fn |-> "get_subscriber_client", kwargs |-> MetadataKwargs(c, cfg)]

get_subscription_request(c) ==
  Ok([method |-> "get_subscription",
      request |-> [subscription |-> c.subscription_name]])

get_subscription_result(subscription) ==
  Dict([name |-> subscription.name,
        topic |-> subscription.topic,
        push_config |-> StrOrNone(subscription.push_config),
        ack_deadline_seconds |-> subscription.ack_deadline_seconds,
        retain_acked_messages |-> subscription.retain_acked_messages,
        message_retention_duration |->
          StrOrNone(subscription.message_retention_duration),
        labels |-> subscription.labels,
        enable_message_ordering |-> subscription.enable_message_ordering,
        expiration_policy |-> StrOrNone(subscription.expiration_policy),
        filter |-> subscription.filter,
        dead_letter_policy |-> StrOrNone(subscription.dead_letter_policy),
        retry_policy |-> StrOrNone(subscription.retry_policy),
        detached |-> subscription.detached])

list_schemas_client(c, cfg) ==
  [fn |-> "get_schema_client", kwargs |-> MetadataKwargs(c, cfg)]

list_schemas_request(c) ==
  Ok([method |-> "list_schemas", request |-> [parent |-> project_path(c.project_id)]])

list_schemas_result(schemas) == List(Names(schemas))

get_schema_client(c, cfg) ==
  [fn |-> "get_schema_client", kwargs |-> MetadataKwargs(c, cfg)]

get_schema_request(c) ==
  Ok([method |-> "get_schema", request |-> [name |-> <<c.schema_name>>]])

get_schema_result(schema) ==
  Dict([name |-> schema.name,
        type |-> StrEnum(schema.type_),
        definition |-> schema.definition,
        revision_id |-> schema.revision_id,
        revision_create_time |-> StrTime(schema.revision_create_time)])

list_schema_revisions_client(c, cfg) ==
  [fn |-> "get_schema_client", kwargs |-> MetadataKwargs(c, cfg)]

list_schema_revisions_request(c) ==
  Ok([method |-> "list_schema_revisions", request |-> [name |-> c.schema_name]])

list_schema_revisions_result(schemas) == List(RevisionIds(schemas))

get_schema_revision_client(c, cfg) ==
  [fn |-> "get_schema_client", kwargs |-> MetadataKwargs(c, cfg)]

\* name_with_revision = f"{schema_name}@{revision_id}"
get_schema_revision_request(c) ==
  Ok([method |-> "get_schema",
      request |-> [name |-> <<c.schema_name, "@", c.revision_id>>]])

get_schema_revision_result(schema) == get_schema_result(schema)

----------------------------------------------------------------------------
(* The tools, by name.                                                     *)

MessageTools == {"publish_message", "pull_messages", "acknowledge_messages"}

MetadataTools ==
  {"list_topics", "get_topic", "list_subscriptions", "get_subscription",
   "list_schemas", "get_schema", "list_schema_revisions", "get_schema_revision"}

Tools == MessageTools \cup MetadataTools

\* The factory call of each tool
ToolClient(c, cfg) ==
  CASE c.op = "publish_message" -> publish_message_client(c, cfg)
    [] c.op = "pull_messages" -> pull_messages_client(c, cfg)
    [] c.op = "acknowledge_messages" -> acknowledge_messages_client(c, cfg)
    [] c.op = "list_topics" -> list_topics_client(c, cfg)
    [] c.op = "get_topic" -> get_topic_client(c, cfg)
    [] c.op = "list_subscriptions" -> list_subscriptions_client(c, cfg)
    [] c.op = "get_subscription" -> get_subscription_client(c, cfg)
    [] c.op = "list_schemas" -> list_schemas_client(c, cfg)
    [] c.op = "get_schema" -> get_schema_client(c, cfg)
    [] c.op = "list_schema_revisions" -> list_schema_revisions_client(c, cfg)
    [] c.op = "get_schema_revision" -> get_schema_revision_client(c, cfg)

\* The first request of each tool: Ok(request), or what is raised before
\* any request leaves
ToolRequest(c) ==
  CASE c.op = "publish_message" -> publish_message_request(c)
    [] c.op = "pull_messages" -> pull_messages_request(c)
    [] c.op = "acknowledge_messages" -> acknowledge_messages_request(c)
    [] c.op = "list_topics" -> list_topics_request(c)
    [] c.op = "get_topic" -> get_topic_request(c)
    [] c.op = "list_subscriptions" -> list_subscriptions_request(c)
    [] c.op = "get_subscription" -> get_subscription_request(c)
    [] c.op = "list_schemas" -> list_schemas_request(c)
    [] c.op = "get_schema" -> get_schema_request(c)
    [] c.op = "list_schema_revisions" -> list_schema_revisions_request(c)
    [] c.op = "get_schema_revision" -> get_schema_revision_request(c)

\* What each tool but pull_messages returns from the service's answer
ToolResult(c, answer) ==
  CASE c.op = "publish_message" -> publish_message_result(answer)
    [] c.op = "acknowledge_messages" -> acknowledge_messages_result
    [] c.op = "list_topics" -> list_topics_result(answer)
    [] c.op = "get_topic" -> get_topic_result(answer)
    [] c.op = "list_subscriptions" -> list_subscriptions_result(answer)
    [] c.op = "get_subscription" -> get_subscription_result(answer)
    [] c.op = "list_schemas" -> list_schemas_result(answer)
    [] c.op = "get_schema" -> get_schema_result(answer)
    [] c.op = "list_schema_revisions" -> list_schema_revisions_result(answer)
    [] c.op = "get_schema_revision" -> get_schema_revision_result(answer)

\* The except handler of each tool
ToolError(c, ex) ==
  CASE c.op = "publish_message" -> publish_message_error(c, ex)
    [] c.op = "pull_messages" -> pull_messages_error(c, ex)
    [] c.op = "acknowledge_messages" -> acknowledge_messages_error(c, ex)
    [] OTHER -> metadata_error(ex)

----------------------------------------------------------------------------
(* The callers' arguments and the service's answers.                       *)

\* The callers: the credentials and the tool configuration of each
Callers ==
  {[credentials |-> "credentials_a", settings |-> [project_id |-> "my_project_id"]],
   [credentials |-> "credentials_b", settings |-> [project_id |-> ""]]}
TopicNames == {"projects/p/topics/t1", "projects/p/topics/t2"}
SubscriptionNames == {"projects/p/subscriptions/s1", "projects/p/subscriptions/s2"}
SchemaNames == {"projects/p/schemas/c1", "projects/p/schemas/c2"}
ProjectIds == {"p", "q"}
RevisionIds0 == {"rev1", "rev2"}

\* message texts: 'H', e-acute, and a lone surrogate
TextChars == {72, 233, 55296}
Texts == SeqsUpTo(TextChars, MaxText)

AttributeMaps ==
  UNION {[K -> {"value"}] : K \in SUBSET {"key1", "data", "ordering_key"}}
AttributeArgs == {None} \cup {Some(a) : a \in AttributeMaps}
OrderingKeys == {None, Some(""), Some("key1")}

AckIds == {"ack1", "ack2"}
AckIdLists == SeqsUpTo(AckIds, MaxTokens)

MessageIds == {"m1", "m2"}

\* payload bytes: the two bytes of e-acute, of which either alone is not
\* UTF-8
PayloadBytes == {195, 169}
Payloads == SeqsUpTo(PayloadBytes, MaxPayload)

ReceivedMessages ==
  {[message |-> [message_id |-> p[1], data |-> d, attributes |-> p[2],
                 publish_time |-> p[3]],
    ack_id |-> p[4]] :
     d \in Payloads,
     p \in {<<"m1", EmptyDict, "2025-01-01T00:00:00", "ack1">>,
            <<"m2", [key |-> "value"], "2025-01-02T00:00:00", "ack2">>}}

Objects == {<<>>, <<<<"field", "x">>>>}
LabelMaps == {EmptyDict, [key |-> "value"]}

Topics ==
  {[name |-> n, labels |-> l, kms_key_name |-> k, schema_settings |-> s,
    message_storage_policy |-> m] :
     n \in TopicNames, l \in LabelMaps, k \in {"", "kms"}, s \in Objects,
     m \in Objects}

Subscriptions ==
  {[name |-> n, topic |-> "projects/p/topics/t1", push_config |-> o[1],
    ack_deadline_seconds |-> IF b THEN 10 ELSE 600,
    retain_acked_messages |-> b,
    message_retention_duration |-> o[2], labels |-> l,
    enable_message_ordering |-> ~b, expiration_policy |-> o[3],
    filter |-> IF b THEN "" ELSE "attributes:key",
    dead_letter_policy |-> o[4], retry_policy |-> o[5], detached |-> b] :
     n \in SubscriptionNames, l \in LabelMaps, b \in BOOLEAN,
     o \in [1..5 -> Objects]}

Schemas ==
  {[name |-> n, type_ |-> t, definition |-> "definition", revision_id |-> r,
    revision_create_time |-> "2025-01-01 00:00:00"] :
     n \in SchemaNames, t \in {"AVRO", "PROTOCOL_BUFFER"}, r \in RevisionIds0}

\* The resources a list request is answered with: one of each name
Listed(S) == {CHOOSE x \in S : x.name = n : n \in {y.name : y \in S}}
ListedRevisions ==
  {CHOOSE x \in Schemas : x.revision_id = r : r \in RevisionIds0}

\* What the service may answer to the first request of a tool
Answers(c) ==
  CASE c.op = "publish_message" -> MessageIds
    [] c.op = "pull_messages" ->
         {r \in SeqsUpTo(ReceivedMessages, MaxMsgs) : Len(r) <= c.max_messages}
    [] c.op = "acknowledge_messages" -> {None}
    [] c.op = "list_topics" -> SeqsUpTo(Listed(Topics), MaxList)
    [] c.op = "get_topic" -> Topics
    [] c.op = "list_subscriptions" -> SeqsUpTo(Listed(Subscriptions), MaxList)
    [] c.op = "get_subscription" -> Subscriptions
    [] c.op = "list_schemas" -> SeqsUpTo(Listed(Schemas), MaxList)
    [] c.op = "get_schema" -> Schemas
    [] c.op = "list_schema_revisions" -> SeqsUpTo(ListedRevisions, MaxList)
    [] c.op = "get_schema_revision" -> Schemas

\* Every outcome of a call into the client library or the service
Outcomes(values) == {Ok(v) : v \in values} \cup {Raise(e) : e \in ServiceErrors}

----------------------------------------------------------------------------------------------------------------------------------------
(* The state machine.                                                      *)

NoCall == [op |-> "none"]
NothingPulled == [messages |-> <<>>, ack_ids |-> <<>>]

Init ==
  /\ \E who \in Callers :
       /\ settings = who.settings
       /\ creds = who.credentials
  /\ pc = "idle"
  /\ call = NoCall
  /\ handle = None
  /\ log = <<>>
  /\ pulled = NothingPulled
  /\ ret = NoValue
  /\ caught = None
  /\ nCalls = 0
  /\ me = 0
  /\ waiting = {}

\* A caller may invoke a tool.
CanStart == pc = "idle" /\ nCalls < MaxCalls

\* The invocation starts with nothing done.
Started ==
  /\ pc' = "factory"
  /\ nCalls' = nCalls + 1
  /\ me' = nCalls + 1
  /\ UNCHANGED <<settings, creds, handle, log, pulled, ret, caught, waiting>>

publish_message ==
  /\ CanStart
  /\ \E t \in TopicNames, m \in Texts, a \in AttributeArgs, k \in OrderingKeys :
       call' = [op |-> "publish_message", topic_name |-> t, message |-> m,
                credentials |-> creds, attributes |-> a,
                ordering_key |-> k]
  /\ Started

pull_messages ==
  /\ CanStart
  /\ \E sub \in SubscriptionNames, n \in 1..MaxMsgs, ack \in BOOLEAN :
       call' = [op |-> "pull_messages", subscription_name |-> sub,
                credentials |-> creds, max_messages |-> n,
                auto_ack |-> ack]
  /\ Started

acknowledge_messages ==
  /\ CanStart
  /\ \E sub \in SubscriptionNames, ids \in AckIdLists :
       call' = [op |-> "acknowledge_messages", subscription_name |-> sub,
                ack_ids |-> ids, credentials |-> creds]
  /\ Started

list_topics ==
  /\ CanStart
  /\ \E p \in ProjectIds :
       call' = [op |-> "list_topics", project_id |-> p,
                credentials |-> creds]
  /\ Started

get_topic ==
  /\ CanStart
  /\ \E t \in TopicNames :
       call' = [op |-> "get_topic", topic_name |-> t,
                credentials |-> creds]
  /\ Started

list_subscriptions ==
  /\ CanStart
  /\ \E p \in ProjectIds :
       call' = [op |-> "list_subscriptions", project_id |-> p,
                credentials |-> creds]
  /\ Started

get_subscription ==
  /\ CanStart
  /\ \E sub \in SubscriptionNames :
       call' = [op |-> "get_subscription", subscription_name |-> sub,
                credentials |-> creds]
  /\ Started

list_schemas ==
  /\ CanStart
  /\ \E p \in ProjectIds :
       call' = [op |-> "list_schemas", project_id |-> p,
                credentials |-> creds]
  /\ Started

get_schema ==
  /\ CanStart
  /\ \E n \in SchemaNames :
       call' = [op |-> "get_schema", schema_name |-> n,
                credentials |-> creds]
  /\ Started

list_schema_revisions ==
  /\ CanStart
  /\ \E n \in SchemaNames :
       call' = [op |-> "list_schema_revisions", schema_name |-> n,
                credentials |-> creds]
  /\ Started

get_schema_revision ==
  /\ CanStart
  /\ \E n \in SchemaNames, r \in RevisionIds0 :
       call' = [op |-> "get_schema_revision", schema_name |-> n,
                revision_id |-> r, credentials |-> creds]
  /\ Started

\* The classes deriving from Exception, which `except Exception` catches;
\* KeyboardInterrupt, SystemExit and GeneratorExit do not.
ExceptionClasses ==
  {"Exception", "TypeError", "AttributeError", "NameError",
   "UnicodeDecodeError", "UnicodeEncodeError"}

\* A narrower except clause, which lets what the library raises through
CatchesNarrow(ex) == ex.type \in {"TypeError", "AttributeError", "NameError"}

\* except Exception as ex
Catches(ex) == ex.type \in ExceptionClasses

\* An exception leaves the try block: the except clause returns the tool's
\* error mapping, or the exception leaves the tool.
Fail(ex) ==
  IF Catches(ex)
    THEN /\ ret' = ToolError(call, ex)
         /\ caught' = Some(ex)
         /\ pc' = "done"
    ELSE /\ ret' = ret
         /\ caught' = caught
         /\ pc' = "raised"

\* The tool calls the client factory; the constructor of the client class
\* comes to one of `builts`.
FactoryStep(builts) ==
  /\ LET f == ToolClient(call, settings)
         bind == FactoryBind(f.fn, f.kwargs)
     IN \E built \in (IF bind.raised THEN {bind} ELSE builts) :
          LET r == FactoryCall(f.fn, f.kwargs, built)
          IN /\ log' = Append(log, [ev |-> "factory", fn |-> f.fn,
                                    kwargs |-> f.kwargs,
                                    bound |-> ~bind.raised,
                                    built |-> built,
                                    raised |-> r.raised])
             /\ IF r.raised
                  THEN /\ Fail(r.exc)
                       /\ UNCHANGED handle
                  ELSE /\ handle' = Some(r.val)
                       /\ pc' = "request"
                       /\ UNCHANGED <<ret, caught>>
  /\ UNCHANGED <<settings, creds, call, pulled, nCalls, me, waiting>>

CallFactory ==
  /\ pc = "factory"
  /\ FactoryStep(Outcomes({me}))

\* The tool hands its request to the handle; the service answers or raises
\* (one of `answers`); the tool shapes the answer.
ServiceStep(answers) ==
  /\ LET rq == ToolRequest(call)
     IN IF rq.raised
          THEN /\ Fail(rq.exc)
               /\ UNCHANGED <<log, pulled>>
          ELSE \E answer \in answers :
                 /\ log' = Append(log, [ev |-> "request", handle |-> handle[1].id,
                                        req |-> rq.val, answer |-> answer])
                 /\ IF answer.raised
                      THEN /\ Fail(answer.exc)
                           /\ UNCHANGED pulled
                    ELSE IF call.op = "pull_messages"
                      THEN LET l == pull_messages_loop(answer.val, <<>>, <<>>)
                           IN IF l.raised
                                THEN /\ Fail(l.exc)
                                     /\ UNCHANGED pulled
                              ELSE IF pull_messages_ack(call, l.val.ack_ids) # None
                                THEN /\ pulled' = l.val
                                     /\ pc' = "ack"
                                     /\ UNCHANGED <<ret, caught>>
                              ELSE /\ ret' = pull_messages_result(l.val.messages)
                                   /\ pc' = "done"
                                   /\ UNCHANGED <<pulled, caught>>
                    ELSE /\ ret' = ToolResult(call, answer.val)
                         /\ pc' = "done"
                         /\ UNCHANGED <<pulled, caught>>
  /\ UNCHANGED <<settings, creds, call, handle, nCalls, me, waiting>>

CallService ==
  /\ pc = "request"
  /\ ServiceStep(Outcomes(Answers(call)))

\* pull_messages acknowledges what it pulled, then returns.
AcknowledgeStep(answers) ==
  /\ \E answer \in answers :
       /\ log' = Append(log, [ev |-> "request", handle |-> handle[1].id,
                              req |-> pull_messages_ack(call, pulled.ack_ids)[1],
                              answer |-> answer])
       /\ IF answer.raised
            THEN Fail(answer.exc)
            ELSE /\ ret' = pull_messages_result(pulled.messages)
                 /\ pc' = "done"
                 /\ UNCHANGED caught
  /\ UNCHANGED <<settings, creds, call, handle, pulled, nCalls, me, waiting>>

AutoAcknowledge ==
  /\ pc = "ack"
  /\ AcknowledgeStep(Outcomes({None}))

\* The caller has the returned value (or the exception); nothing of the
\* invocation is kept.
Return ==
  /\ pc \in {"done", "raised"}
  /\ pc' = "idle"
  /\ call' = NoCall
  /\ handle' = None
  /\ log' = <<>>
  /\ pulled' = NothingPulled
  /\ ret' = NoValue
  /\ caught' = None
  /\ me' = 0
  /\ UNCHANGED <<settings, creds, nCalls, waiting>>

Next ==
  \/ publish_message
  \/ pull_messages
  \/ acknowledge_messages
  \/ list_topics
  \/ get_topic
  \/ list_subscriptions
  \/ get_subscription
  \/ list_schemas
  \/ get_schema
  \/ list_schema_revisions
  \/ get_schema_revision
  \/ CallFactory
  \/ CallService
  \/ AutoAcknowledge
  \/ Return

Spec == Init /\ [][Next]_vars

----------------------------------------------------------------------------
(* What the properties look at.                                            *)

Done == pc = "done"

FactoryEvents == SelectSeq(log, LAMBDA e : e.ev = "factory")
RequestEvents == SelectSeq(log, LAMBDA e : e.ev = "request")
RequestsOf(method) ==
  SelectSeq(log, LAMBDA e : e.ev = "request" /\ e.req.method = method)

\* The client library or the service raised during the invocation.
EnvRaised ==
  \E i \in DOMAIN log :
    \/ log[i].ev = "factory" /\ log[i].bound /\ log[i].raised
    \/ log[i].ev = "request" /\ log[i].answer.raised

\* The service raised at a request of the invocation.
ServiceRaised ==
  \E i \in DOMAIN log : log[i].ev = "request" /\ log[i].answer.raised

IsStr(x) == x \in Seq(STRING)

IsErrorEnvelope(r) ==
  /\ r.kind = "dict"
  /\ "status" \in DOMAIN r.val
  /\ r.val.status = "ERROR"
  /\ "error_details" \in DOMAIN r.val
  /\ IsStr(r.val.error_details)

HasKey(r, k) == r.kind = "dict" /\ k \in DOMAIN r.val

\* A publish_message call whose text can be encoded and whose attributes
\* repeat no keyword of the publish call
ValidPublish(c) ==
  /\ c.op = "publish_message"
  /\ c.message # <<>>
  /\ ~Utf8Encode(c.message).raised
  /\ (c.attributes # None => DOMAIN c.attributes[1] \cap {"data", "ordering_key"} = {})

----------------------------------------------------------------------------
(* C1: every publish_message call with a valid topic name and message text *)
(* in which neither the client library nor the service raises obtains a    *)
(* publisher handle from the factory, issues one publish request, and      *)
(* returns {"message_id": m} for the identifier m the send call reports,   *)
(* never the error envelope.                                               *)
C1_PublishReturnsMessageId ==
  (Done /\ ValidPublish(call) /\ ~EnvRaised) =>
    /\ handle # None
    /\ Len(RequestsOf("publish")) = 1
    /\ ~RequestsOf("publish")[1].answer.raised
    /\ HasKey(ret, "message_id")
    /\ ret.val.message_id = RequestsOf("publish")[1].answer.val
    /\ ~IsErrorEnvelope(ret)

(* C2: whenever client construction or the service call of any of the      *)
(* eleven tools raises an exception, the tool returns a mapping whose      *)
(* 'status' is "ERROR" and which has an 'error_details' string, and no     *)
(* exception leaves the tool.                                              *)
C2_FailuresBecomeData ==
  /\ pc # "raised"
  /\ (Done /\ (EnvRaised \/ caught # None)) =>
       /\ IsErrorEnvelope(ret)
       /\ caught # None

\* C2's case: a tool is done after the service raised.
C2_Witness ==
  /\ Done
  /\ call.op \in Tools
  /\ ServiceRaised
  /\ IsErrorEnvelope(ret)

(* C3: for every tool and every exception raised under it, error_details   *)
(* of the returned error envelope is non-empty and contains the            *)
(* triggering error's description (the metadata tools and exceptions with  *)
(* an empty text included).  The description is taken to be the error's    *)
(* text, str(ex), or its repr(ex), whichever error_details holds.          *)
C3_ErrorDetailsNonEmpty ==
  (Done /\ caught # None /\ ServiceRaised) =>
    /\ IsErrorEnvelope(ret)
    /\ ret.val.error_details # <<>>
    /\ \/ Contains(ret.val.error_details, Str(caught[1]))
       \/ Contains(ret.val.error_details, Repr(caught[1]))

(* C4: every publish_message call with a non-empty ordering key k (valid,  *)
(* nothing raised by library or service) asks the factory for a publisher  *)
(* with message ordering enabled, forwards a publish request with ordering *)
(* key k, and returns the message identifier the send call reports.        *)
C4_OrderingKeyForwarded ==
  (Done /\ ValidPublish(call) /\ Truthy(call.ordering_key) /\ ~EnvRaised) =>
    /\ Len(FactoryEvents) = 1
    /\ FactoryEvents[1].kwargs.publisher_options.enable_message_ordering
    /\ Len(RequestsOf("publish")) = 1
    /\ RequestsOf("publish")[1].req.ordering_key = call.ordering_key[1]
    /\ HasKey(ret, "message_id")
    /\ ret = publish_message_result(RequestsOf("publish")[1].answer.val)

(* C5: every publish_message call with an attribute map A forwards exactly *)
(* one publish request, and the metadata of that request is A: every key   *)
(* with its value, none added, dropped or renamed.                         *)
C5_AttributesForwarded ==
  (Done /\ call.op = "publish_message" /\ call.attributes # None
        /\ ~Utf8Encode(call.message).raised /\ ~EnvRaised) =>
    /\ Len(RequestsOf("publish")) = 1
    /\ RequestsOf("publish")[1].req.attrs = call.attributes[1]

\* The messages the service delivered to the pull request of this
\* invocation (none when there was no pull or it raised)
Delivered ==
  LET pulls == RequestsOf("pull")
  IN IF pulls # <<>> /\ ~pulls[1].answer.raised THEN pulls[1].answer.val ELSE <<>>

AckIdsOf(received) == [i \in DOMAIN received |-> received[i].ack_id]

(* C6: every successful pull_messages call returns a 'messages' list with  *)
(* as many entries as the service delivered, in the order delivered, entry *)
(* i carrying the message id, attributes, publish time (as RFC 3339 text)  *)
(* and unmodified ack token of delivered message i; with nothing delivered *)
(* the result is {"messages": []}.                                         *)
C6_PullPreservesMessages ==
  (Done /\ call.op = "pull_messages" /\ ~IsErrorEnvelope(ret)) =>
    /\ DOMAIN ret.val = {"messages"}
    /\ Len(RequestsOf("pull")) = 1
    /\ ~RequestsOf("pull")[1].answer.raised
    /\ Len(ret.val.messages) = Len(Delivered)
    /\ \A i \in DOMAIN Delivered :
         LET e == ret.val.messages[i]
             m == Delivered[i]
         IN /\ e.message_id = m.message.message_id
            /\ e.attributes = m.message.attributes
            /\ e.publish_time = Rfc3339(m.message.publish_time)
            /\ e.ack_id = m.ack_id
    /\ (Delivered = <<>> => ret = Dict([messages |-> <<>>]))

\* C6's case: a pull returned two different messages.
C6_Witness ==
  /\ Done
  /\ call.op = "pull_messages"
  /\ HasKey(ret, "messages")
  /\ Len(Delivered) = 2
  /\ Delivered[1].ack_id # Delivered[2].ack_id
  /\ Len(ret.val.messages) = 2

\* base64 decoding of text made of code points
B64Index(cp) == CHOOSE i \in 0..63 : B64Char(i) = cp

RECURSIVE B64Decode(_)
B64Decode(cs) ==
  IF cs = <<>> THEN <<>>
  ELSE
    LET a == B64Index(cs[1])
        b == B64Index(cs[2])
        rest == B64Decode(SubSeq(cs, 5, Len(cs)))
    IN IF cs[3] = B64Pad THEN <<(a * 4) + (b \div 16)>> \o rest
       ELSE LET c == B64Index(cs[3])
            IN IF cs[4] = B64Pad
                 THEN <<(a * 4) + (b \div 16), ((b % 16) * 16) + (c \div 4)>> \o rest
               ELSE <<(a * 4) + (b \div 16), ((b % 16) * 16) + (c \div 4),
                      ((c % 4) * 64) + B64Index(cs[4])>> \o rest

(* C7: for every message delivered to pull_messages the returned entry's   *)
(* 'data' is the UTF-8 decoding of the payload when the bytes are valid    *)
(* UTF-8 and otherwise base64 text that decodes to the bytes; a payload    *)
(* that is not valid UTF-8 never makes the pull an error envelope.         *)
C7_PayloadAsText ==
  (Done /\ call.op = "pull_messages" /\ ~EnvRaised) =>
    /\ ~IsErrorEnvelope(ret)
    /\ HasKey(ret, "messages")
    /\ Len(ret.val.messages) = Len(Delivered)
    /\ \A i \in DOMAIN Delivered :
         LET bytes == Delivered[i].message.data
             text == Utf8Decode(bytes)
         IN IF ~text.raised THEN ret.val.messages[i].data = text.val
            ELSE B64Decode(ret.val.messages[i].data) = bytes

(* C8: pull_messages issues an acknowledge request if and only if auto_ack *)
(* is true and at least one message was pulled; when issued it is a single *)
(* request on the same subscription with exactly the ack tokens of the     *)
(* pulled messages in pull order, after the pull request and before the    *)
(* return.                                                                 *)
C8_AutoAckIffPulled ==
  (Done /\ call.op = "pull_messages") =>
    LET acks == RequestsOf("acknowledge")
    IN /\ (acks # <<>>) <=> (call.auto_ack /\ Delivered # <<>>)
       /\ acks # <<>> =>
            /\ Len(acks) = 1
            /\ acks[1].req.subscription = call.subscription_name
            /\ acks[1].req.ack_ids = AckIdsOf(Delivered)
            /\ \E i, j \in DOMAIN log :
                 /\ i < j
                 /\ log[i].ev = "request" /\ log[i].req.method = "pull"
                 /\ log[j].ev = "request" /\ log[j].req.method = "acknowledge"

(* C9: acknowledge_messages forwards the given token list unmodified (same *)
(* tokens, same order, the empty list included) as one acknowledge request *)
(* on the given subscription, and returns {"status": "SUCCESS"} only if    *)
(* that request completes without raising; if it raises the result is the  *)
(* error envelope.                                                         *)
C9_AcknowledgeForwardsTokens ==
  (Done /\ call.op = "acknowledge_messages") =>
    LET acks == RequestsOf("acknowledge")
    IN /\ Len(RequestEvents) = Len(acks)
       /\ Len(acks) = (IF handle # None THEN 1 ELSE 0)
       /\ \A i \in DOMAIN acks :
            acks[i].req = [method |-> "acknowledge",
                           subscription |-> call.subscription_name,
                           ack_ids |-> call.ack_ids]
       /\ (ret = Dict([status |-> "SUCCESS"])) <=>
            (Len(acks) = 1 /\ ~acks[1].answer.raised)
       /\ (ret # Dict([status |-> "SUCCESS"])) => IsErrorEnvelope(ret)

\* C9's case: two different tokens were acknowledged.
C9_Witness ==
  /\ Done
  /\ call.op = "acknowledge_messages"
  /\ Len(call.ack_ids) = 2
  /\ call.ack_ids[1] # call.ack_ids[2]
  /\ ret = Dict([status |-> "SUCCESS"])

ListTools ==
  {"list_topics", "list_subscriptions", "list_schemas", "list_schema_revisions"}

(* C10: for any sequence of resources the service returns, list_topics,    *)
(* list_subscriptions and list_schemas return the list of exactly the      *)
(* resource names in the order delivered (list_schema_revisions the        *)
(* revision ids), having queried 'projects/<project_id>'; the result is a  *)
(* plain list, not an error mapping.                                       *)
C10_ListsReturnNames ==
  (Done /\ call.op \in ListTools /\ ~EnvRaised) =>
    /\ ret.kind = "list"
    /\ Len(RequestEvents) = 1
    /\ ~RequestEvents[1].answer.raised
    /\ (call.op # "list_schema_revisions" =>
          \A k \in DOMAIN RequestEvents[1].req.request :
            RequestEvents[1].req.request[k] = <<"projects/", call.project_id>>)
    /\ ret.val = (IF call.op = "list_schema_revisions"
                    THEN [i \in DOMAIN RequestEvents[1].answer.val |->
                            RequestEvents[1].answer.val[i].revision_id]
                  ELSE [i \in DOMAIN RequestEvents[1].answer.val |->
                          RequestEvents[1].answer.val[i].name])

\* The answer to the only request of the invocation
Answer == RequestEvents[1].answer.val

TopicNested == {"schema_settings", "message_storage_policy"}
SubscriptionNested ==
  {"push_config", "message_retention_duration", "expiration_policy",
   "dead_letter_policy", "retry_policy"}
TopicScalars == {"name", "kms_key_name"}
SubscriptionScalars ==
  {"name", "topic", "ack_deadline_seconds", "filter", "retain_acked_messages",
   "enable_message_ordering", "detached"}

(* C11: for every topic (resp. subscription) the service returns, get_topic *)
(* (resp. get_subscription) returns a flat mapping whose scalar fields     *)
(* equal the service's values, whose 'labels' is the service's label map   *)
(* exactly, and in which each nested policy/settings field is the string   *)
(* form of the object when it is set and None when it is empty.            *)
C11_GetReturnsFields ==
  (Done /\ call.op \in {"get_topic", "get_subscription"} /\ ~EnvRaised) =>
    LET scalars == IF call.op = "get_topic" THEN TopicScalars
                   ELSE SubscriptionScalars
        nested == IF call.op = "get_topic" THEN TopicNested
                  ELSE SubscriptionNested
    IN /\ Len(RequestEvents) = 1
       /\ ret.kind = "dict"
       /\ DOMAIN ret.val = scalars \cup nested \cup {"labels"}
       /\ \A k \in scalars : ret.val[k] = Answer[k]
       /\ ret.val.labels = Answer.labels
       /\ \A k \in nested :
            IF Answer[k] = <<>> THEN ret.val[k] = None
            ELSE ret.val[k] = Some(StrObj(Answer[k]))

\* C11's case: a topic with labels {"key": "value"}, one nested field set
\* and one empty, was returned.
C11_Witness ==
  /\ Done
  /\ call.op = "get_topic"
  /\ ~EnvRaised
  /\ Answer.labels = [key |-> "value"]
  /\ Answer.schema_settings # <<>>
  /\ Answer.message_storage_policy = <<>>
  /\ ret.val.labels = [key |-> "value"]
  /\ ret.val.message_storage_policy = None

(* C12: the client factory provides a handle of each requested kind, so    *)
(* that for every schema the service returns, get_schema obtains a         *)
(* schema-registry handle and returns a success mapping with 'name' equal  *)
(* to the schema's name and 'type' the string form of its type (plus       *)
(* definition, revision_id and revision_create_time); get_schema_revision  *)
(* does the same for the resource named '<schema_name>@<revision_id>'.     *)
C12_SchemaHandleAndFields ==
  (Done /\ call.op \in {"get_schema", "get_schema_revision"} /\ ~EnvRaised) =>
    /\ handle # None
    /\ Len(RequestEvents) = 1
    /\ RequestEvents[1].req.method = "get_schema"
    /\ RequestEvents[1].req.request.name =
         (IF call.op = "get_schema" THEN <<call.schema_name>>
          ELSE <<call.schema_name, "@", call.revision_id>>)
    /\ ~IsErrorEnvelope(ret)
    /\ ret.kind = "dict"
    /\ DOMAIN ret.val =
         {"name", "type", "definition", "revision_id", "revision_create_time"}
    /\ ret.val.name = Answer.name
    /\ ret.val.type = <<"Type.", Answer.type_>>
    /\ ret.val.definition = Answer.definition
    /\ ret.val.revision_id = Answer.revision_id

----------------------------------------------------------------------------
(* The client factory called on its own.                                   *)

Fragments == {"", "my_project_id", "publish_message"}
NoArg == [kind |-> "none"]
StrArg(s) == [kind |-> "str", s |-> s]

\* user_agent: absent, a str, or a list of str
UserAgentArgs ==
  {NoArg} \cup {StrArg(s) : s \in Fragments}
    \cup {ListArg(l) : l \in SeqsUpTo(Fragments, MaxFragments)}

CredentialValues == {who.credentials : who \in Callers}

\* A caller calls client.<fn>(credentials=c, user_agent=ua); the function
\* returns the handle, or the constructor's exception leaves it.
FactoryReturns(fn, c, ua, built) ==
  LET kwargs == [credentials |-> c, user_agent |-> ua]
      r == FactoryCall(fn, kwargs, built)
  IN /\ call' = [op |-> fn, credentials |-> c, user_agent |-> ua]
     /\ handle' = IF r.raised THEN None ELSE Some(r.val)
     /\ pc' = IF r.raised THEN "raised" ELSE "done"
     /\ nCalls' = nCalls + 1
     /\ UNCHANGED <<settings, creds, log, pulled, ret, caught, me, waiting>>

get_publisher_client ==
  /\ CanStart
  /\ \E c \in CredentialValues, ua \in UserAgentArgs,
        built \in Outcomes({nCalls + 1}) :
       FactoryReturns("get_publisher_client", c, ua, built)

get_subscriber_client ==
  /\ CanStart
  /\ \E c \in CredentialValues, ua \in UserAgentArgs,
        built \in Outcomes({nCalls + 1}) :
       FactoryReturns("get_subscriber_client", c, ua, built)

ClientNext ==
  \/ get_publisher_client
  \/ get_subscriber_client
  \/ Return

SpecClient == Init /\ [][ClientNext]_vars

\* The fragments a user_agent argument gives, in order
FragmentsOf(ua) ==
  IF ua.kind = "none" THEN <<>>
  ELSE IF ua.kind = "str" THEN <<ua.s>>
  ELSE ua.l

(* C13: for every user_agent argument (absent, a string, or an ordered     *)
(* list of strings), the identification string built by                    *)
(* get_publisher_client and get_subscriber_client starts with the fixed    *)
(* library identifier and version, followed by the non-empty caller        *)
(* fragments in their given order, all joined by exactly one space; empty  *)
(* fragments contribute nothing and leave no doubled or trailing space;    *)
(* the handle is constructed with the given credentials.                   *)
C13_UserAgentJoined ==
  (Done /\ call.op \in DOMAIN ClientModule) =>
    LET kept == SelectSeq(FragmentsOf(call.user_agent), LAMBDA f : f # "")
        info == handle[1].client_info
    IN /\ handle # None
       /\ handle[1].class = ClientModule[call.op].builds
       /\ handle[1].credentials = call.credentials
       /\ Len(info) = 1 + (2 * Len(kept))
       /\ info[1] = USER_AGENT
       /\ \A i \in DOMAIN kept : info[2 * i] = " " /\ info[(2 * i) + 1] = kept[i]
       /\ info[Len(info)] # " "
       /\ \A i \in DOMAIN info : info[i] # ""
       /\ \A i \in 1..(Len(info) - 1) : ~(info[i] = " " /\ info[i + 1] = " ")

\* C13's case: a list with an empty entry between two fragments, and
\* credentials other than the first caller's.
C13_Witness ==
  /\ Done
  /\ call.op = "get_subscriber_client"
  /\ call.credentials = "credentials_b"
  /\ call.user_agent = ListArg(<<"my_project_id", "", "publish_message">>)
  /\ handle[1].client_info =
       <<USER_AGENT, " ", "my_project_id", " ", "publish_message">>
  /\ handle[1].credentials = "credentials_b"

----------------------------------------------------------------------------
(* Invocations running concurrently.  One invocation runs at a time; the   *)
(* others are suspended where they stand, each keeping its own locals.     *)

\* The locals of the running invocation
Locals ==
  [me |-> me, pc |-> pc, call |-> call, handle |-> handle, log |-> log,
   pulled |-> pulled, ret |-> ret, caught |-> caught]

\* The running invocation is suspended; another caller may start.
Suspend ==
  /\ pc # "idle"
  /\ waiting' = waiting \cup {Locals}
  /\ pc' = "idle"
  /\ call' = NoCall
  /\ handle' = None
  /\ log' = <<>>
  /\ pulled' = NothingPulled
  /\ ret' = NoValue
  /\ caught' = None
  /\ me' = 0
  /\ UNCHANGED <<settings, creds, nCalls>>

\* A resumed invocation that finds the handle another invocation made
ResumeSharedHandle(w) ==
  /\ waiting' = waiting \ {w}
  /\ pc' = w.pc
  /\ call' = w.call
  /\ handle' = IF w.handle # None /\ \E v \in waiting : v.handle \notin {None, w.handle}
                 THEN (CHOOSE v \in waiting : v.handle \notin {None, w.handle}).handle
               ELSE w.handle
  /\ log' = w.log
  /\ pulled' = w.pulled
  /\ ret' = w.ret
  /\ caught' = w.caught
  /\ me' = w.me

\* A suspended invocation goes on with the locals it had.
ResumeWith(w) ==
  /\ waiting' = waiting \ {w}
  /\ pc' = w.pc
  /\ call' = w.call
  /\ handle' = w.handle
  /\ log' = w.log
  /\ pulled' = w.pulled
  /\ ret' = w.ret
  /\ caught' = w.caught
  /\ me' = w.me

Resume ==
  /\ pc = "idle"
  /\ \E w \in waiting : ResumeWith(w)
  /\ UNCHANGED <<settings, creds, nCalls>>

\* The calls the concurrent callers make: one of every tool
ConcurrentCalls ==
  {[op |-> "publish_message", topic_name |-> "projects/p/topics/t1",
    message |-> <<72>>, credentials |-> creds, attributes |-> None,
    ordering_key |-> Some("key1")],
   [op |-> "pull_messages", subscription_name |-> "projects/p/subscriptions/s1",
    credentials |-> creds, max_messages |-> 2, auto_ack |-> TRUE],
   [op |-> "acknowledge_messages",
    subscription_name |-> "projects/p/subscriptions/s1",
    ack_ids |-> <<"ack1">>, credentials |-> creds],
   [op |-> "list_topics", project_id |-> "p", credentials |-> creds],
   [op |-> "get_topic", topic_name |-> "projects/p/topics/t1",
    credentials |-> creds],
   [op |-> "list_subscriptions", project_id |-> "p", credentials |-> creds],
   [op |-> "get_subscription",
    subscription_name |-> "projects/p/subscriptions/s1", credentials |-> creds],
   [op |-> "list_schemas", project_id |-> "p", credentials |-> creds],
   [op |-> "get_schema", schema_name |-> "projects/p/schemas/c1",
    credentials |-> creds],
   [op |-> "list_schema_revisions", schema_name |-> "projects/p/schemas/c1",
    credentials |-> creds],
   [op |-> "get_schema_revision", schema_name |-> "projects/p/schemas/c1",
    revision_id |-> "rev1", credentials |-> creds]}

\* What the library and the service raise at them
ConcurrentErrors == {Exc("Exception", <<"e">>)}

ConcurrentOutcomes(values) ==
  {Ok(v) : v \in values} \cup {Raise(e) : e \in ConcurrentErrors}

ConcurrentMessage(id, data, ack_id) ==
  [message |-> [message_id |-> id, data |-> data, attributes |-> EmptyDict,
                publish_time |-> "2025-01-01T00:00:00"],
   ack_id |-> ack_id]

\* The answers of the service to them: one message to a pull, or two of
\* which the second is not UTF-8; one resource to the others
ConcurrentAnswers(c) ==
  CASE c.op = "publish_message" -> {"m1"}
    [] c.op = "pull_messages" ->
         {<<ConcurrentMessage("m1", <<195, 169>>, "ack1")>>,
          <<ConcurrentMessage("m1", <<195, 169>>, "ack1"),
            ConcurrentMessage("m2", <<169>>, "ack2")>>}
    [] c.op = "acknowledge_messages" -> {None}
    [] c.op = "list_topics" ->
         {<<[name |-> "projects/p/topics/t1", labels |-> EmptyDict,
             kms_key_name |-> "", schema_settings |-> <<>>,
             message_storage_policy |-> <<>>]>>}
    [] c.op = "get_topic" ->
         {[name |-> c.topic_name, labels |-> [key |-> "value"],
           kms_key_name |-> "", schema_settings |-> <<>>,
           message_storage_policy |-> <<>>]}
    [] c.op = "list_subscriptions" -> {<<[name |-> "projects/p/subscriptions/s1"]>>}
    [] c.op = "get_subscription" ->
         {CHOOSE x \in Subscriptions :
            x.name = c.subscription_name /\ x.labels = [key |-> "value"]}
    [] OTHER -> {}

\* The running invocation is one of these calls.
InScope == call \in ConcurrentCalls

ConcurrentCallFactory ==
  /\ pc = "factory"
  /\ FactoryStep(ConcurrentOutcomes({me}))

ConcurrentCallService ==
  /\ pc = "request"
  /\ ServiceStep(ConcurrentOutcomes(ConcurrentAnswers(call)))

ConcurrentAutoAcknowledge ==
  /\ pc = "ack"
  /\ AcknowledgeStep(ConcurrentOutcomes({None}))

ConcurrentNext ==
  \/ publish_message /\ InScope'
  \/ pull_messages /\ InScope'
  \/ acknowledge_messages /\ InScope'
  \/ list_topics /\ InScope'
  \/ get_topic /\ InScope'
  \/ list_subscriptions /\ InScope'
  \/ get_subscription /\ InScope'
  \/ list_schemas /\ InScope'
  \/ get_schema /\ InScope'
  \/ list_schema_revisions /\ InScope'
  \/ get_schema_revision /\ InScope'
  \/ ConcurrentCallFactory
  \/ ConcurrentCallService
  \/ ConcurrentAutoAcknowledge
  \/ Return
  \/ Suspend
  \/ Resume

SpecConcurrent == Init /\ [][ConcurrentNext]_vars

\* The invocations under way, each with its locals
Invocations == waiting \cup (IF pc = "idle" THEN {} ELSE {Locals})

\* What the environment answered to invocation x, in order
OutcomesOf(x) ==
  [i \in DOMAIN x.log |->
     IF x.log[i].ev = "factory" THEN x.log[i].built ELSE x.log[i].answer]

\* The requests invocation x issued, each with the handle it used
RequestsBy(x) ==
  LET rs == SelectSeq(x.log, LAMBDA e : e.ev = "request")
  IN [i \in DOMAIN rs |-> [handle |-> rs[i].handle, req |-> rs[i].req]]

\* The tool run alone, start to end: the call c by invocation number id
\* under the configuration cfg, the environment answering outs[1] to the
\* constructor and outs[2], outs[3] to the requests.
Alone(c, cfg, id, outs) ==
  LET f == ToolClient(c, cfg)
      bind == FactoryBind(f.fn, f.kwargs)
      r == IF bind.raised THEN bind ELSE FactoryCall(f.fn, f.kwargs, outs[1])
      rq == ToolRequest(c)
      first == <<[handle |-> id, req |-> rq.val]>>
      l == pull_messages_loop(outs[2].val, <<>>, <<>>)
      ack == pull_messages_ack(c, l.val.ack_ids)
      both == first \o <<[handle |-> id, req |-> ack[1]]>>
  IN IF r.raised THEN [reqs |-> <<>>, ret |-> ToolError(c, r.exc)]
     ELSE IF rq.raised THEN [reqs |-> <<>>, ret |-> ToolError(c, rq.exc)]
     ELSE IF outs[2].raised
       THEN [reqs |-> first, ret |-> ToolError(c, outs[2].exc)]
     ELSE IF c.op # "pull_messages"
       THEN [reqs |-> first, ret |-> ToolResult(c, outs[2].val)]
     ELSE IF l.raised THEN [reqs |-> first, ret |-> ToolError(c, l.exc)]
     ELSE IF ack = None
       THEN [reqs |-> first, ret |-> pull_messages_result(l.val.messages)]
     ELSE IF outs[3].raised
       THEN [reqs |-> both, ret |-> ToolError(c, outs[3].exc)]
     ELSE [reqs |-> both, ret |-> pull_messages_result(l.val.messages)]

\* Invocation x has the handle it made itself, and uses no other.
OwnHandle(x) ==
  /\ x.pc \in {"request", "ack"} => x.handle # None
  /\ x.handle # None =>
       /\ x.handle[1].id = x.me
       /\ \E i \in DOMAIN x.log :
            /\ x.log[i].ev = "factory"
            /\ x.log[i].built = Ok(x.me)
  /\ \A i \in DOMAIN x.log :
       x.log[i].ev = "request" => x.handle # None /\ x.log[i].handle = x.handle[1].id

\* Invocation x, when done, issued the requests and has the result of the
\* same call run alone with the same answers.
AsAlone(x) ==
  x.pc = "done" =>
    LET a == Alone(x.call, settings, x.me, OutcomesOf(x))
    IN /\ RequestsBy(x) = a.reqs
       /\ x.ret = a.ret

\* A step changes the locals of the running invocation only: who is
\* suspended after it was there before it, with the same locals, and nobody
\* is lost.
OthersUntouched ==
  /\ \A w \in waiting' : w \in Invocations
  /\ \A w \in waiting : w \in waiting' \/ (pc' # "idle" /\ w = Locals')

(* C14: tool invocations share no mutable state: in every interleaving of  *)
(* concurrently running invocations each invocation uses only the handle   *)
(* it created itself, its requests and result are those of the same call   *)
(* run alone against the same service responses, and no step of an         *)
(* invocation changes the tool configuration, the credentials, or the      *)
(* locals (the handle among them) of another invocation.                   *)
C14_NoSharedState ==
  /\ [](\A x \in Invocations :
          /\ OwnHandle(x)
          /\ AsAlone(x)
          /\ \A y \in Invocations : x.me = y.me => x = y)
  /\ [][settings' = settings /\ creds' = creds /\ OthersUntouched]_vars

\* C14's case: a pull returned its messages although a later invocation
\* made its own handle in between and is still under way.
C14_Witness ==
  /\ Done
  /\ call.op = "pull_messages"
  /\ HasKey(ret, "messages")
  /\ Len(RequestsOf("acknowledge")) = 1
  /\ \E w \in waiting :
       /\ w.me > me
       /\ w.pc = "request"
       /\ w.handle # None
       /\ w.handle[1].id # handle[1].id

Methods ==
  {"publish", "pull", "acknowledge", "list_topics", "get_topic",
   "list_subscriptions", "get_subscription", "list_schemas", "get_schema",
   "list_schema_revisions"}

\* The order of an invocation: the call of the factory is reached once and
\* first, then come requests on the handle that call built, at most one of each kind, and
\* nothing after a request that raised but the error envelope.
FactoryThenRequests ==
  /\ Len(FactoryEvents) = 1
  /\ log[1].ev = "factory"
  /\ \A i \in DOMAIN log :
       log[i].ev = "request" =>
         /\ log[1].built = Ok(me)
         /\ log[i].handle = me
         /\ log[i].answer.raised => (i = Len(log) /\ IsErrorEnvelope(ret))
  /\ \A m \in Methods : Len(RequestsOf(m)) <= 1

(* C15: every tool invocation calls the client factory exactly once,       *)
(* before any service request, and never reuses a handle from an earlier   *)
(* invocation; it then issues at most one request of each kind and, when a *)
(* request fails, issues no further request (no retry) before returning    *)
(* the error envelope.  The factory is called when its body runs: a call   *)
(* Python refuses for its arguments, or of a function the module lacks, is *)
(* no call of the factory.                                                 *)
C15_FactoryOnceNoRetry ==
  Done =>
    /\ FactoryThenRequests
    /\ FactoryEvents[1].bound

\* A step of pull_messages after the answered pull request failed: the
\* reshaping of a delivered message, or the acknowledge request.
FailedAfterPull ==
  /\ Len(RequestsOf("pull")) = 1
  /\ ~RequestsOf("pull")[1].answer.raised
  /\ \/ \E k \in DOMAIN Delivered : message_data(Delivered[k].message.data).raised
     \/ \E i \in DOMAIN log :
          /\ log[i].ev = "request"
          /\ log[i].req.method = "acknowledge"
          /\ log[i].answer.raised

(* C16: pull_messages fails atomically for the caller: if a step after the *)
(* pull request fails (reshaping the k-th delivered message, or the        *)
(* auto-acknowledge request), the result is the error envelope only, with  *)
(* no 'messages' key and none of the messages already processed or their   *)
(* ack tokens, although the service has delivered them.                    *)
C16_PullFailsAtomically ==
  (Done /\ call.op = "pull_messages" /\ FailedAfterPull) =>
    /\ IsErrorEnvelope(ret)
    /\ DOMAIN ret.val = {"status", "error_details"}
    /\ Delivered # <<>>
    /\ \A k \in DOMAIN Delivered :
         /\ Delivered[k].ack_id \notin Range(ret.val.error_details)
         /\ Delivered[k].message.message_id \notin Range(ret.val.error_details)

\* C16's case: two messages were delivered and shaped, and the
\* acknowledge request failed.
C16_Witness ==
  /\ Done
  /\ call.op = "pull_messages"
  /\ Len(Delivered) = 2
  /\ Len(RequestsOf("acknowledge")) = 1
  /\ RequestsOf("acknowledge")[1].answer.raised
  /\ RequestsOf("acknowledge")[1].req.ack_ids = AckIdsOf(Delivered)
  /\ IsErrorEnvelope(ret)

\* Another case of C16: the second of two messages could not be shaped.
C16_MidLoop ==
  /\ Done
  /\ call.op = "pull_messages"
  /\ Len(Delivered) = 2
  /\ ~message_data(Delivered[1].message.data).raised
  /\ message_data(Delivered[2].message.data).raised
  /\ IsErrorEnvelope(ret)

\* The attribute map of a publish_message call (None is the empty map)
AttributesOf(c) == IF c.attributes = None THEN EmptyDict ELSE c.attributes[1]

\* The keyword parameters publish_message itself hands to publish
ReservedKeys == {"data", "ordering_key"}

\* The ordering key a publish request is to carry for the argument o
ForwardedKey(o) == IF o = None \/ o = Some("") THEN "" ELSE o[1]

====
